---------------------------- MODULE Spec2Model ----------------------------
(***************************************************************************)
(* A model of github.com/noisysockets/util.  Package triemap is a longest- *)
(* prefix-match map from netip.Prefix to values of a comparable type V.    *)
(*                                                                         *)
(* Addresses are scaled down: an IPv4 address has Bits4 bits (32 in the    *)
(* code) and an IPv6 address Bits6 bits (128 in the code).  An IPv6        *)
(* address whose leading Bits6 - Bits4 bits are 0...01 stands for an       *)
(* IPv4-mapped IPv6 address (::ffff:a.b.c.d), which netip's Unmap turns    *)
(* into the IPv4 address made of its trailing Bits4 bits.  Zoned addresses *)
(* and invalid prefixes are not inputs of the model.  The module also     *)
(* models package waitpool, a bounded pool, and cidr.Host.                 *)
(*                                                                         *)
(* The trie is a heap of trieNode objects.  A node is named by the root it *)
(* hangs from and the child0/child1 choices leading to it, so node         *)
(* <<r, path>> has a child0 iff <<r, Append(path, 0)>> is allocated.       *)
(***************************************************************************)
EXTENDS Integers, Sequences, FiniteSets, TLC

VARIABLES
    trieMap,     \* TrieMap.trieMap: [nodes, value, keyRefs]
    keyToValue,  \* TrieMap.keyToValue: map[int]V
    valueToKey,  \* TrieMap.valueToKey: map[V]int
    bound,       \* history: stored prefix -> the value last inserted at it
    allocated,   \* history: the keys Insert has allocated so far
    last,        \* history: the call that produced this state, and its result
    ops,         \* history: number of calls made
    mu,          \* TrieMap.mu: [writer, readers]
    pc,          \* the statement each goroutine is at
    locals,      \* the arguments, local variables and result of its call
    abstract,    \* history: the map as whole calls, one at a time, leave it
    waitPool,    \* WaitPool: [max, count, lock, notify]
    hostCall     \* a call of cidr.Host: [prefix, num, returned, addr, err]

vars == <<trieMap, keyToValue, valueToKey, bound, allocated, last, ops,
          mu, pc, locals, abstract, waitPool, hostCall>>

\* The variables of the map and of its histories.
trieVars == <<trieMap, keyToValue, valueToKey, bound, allocated, last, ops>>

\* The variables the calls of one caller at a time leave alone.
otherVars == <<mu, pc, locals, abstract, waitPool, hostCall>>

-----------------------------------------------------------------------------
(* Bounds of the model *)

Bits4 == 1     \* width of a scaled IPv4 address
Bits6 == 3     \* width of a scaled IPv6 address
LoBits == 2    \* width of the Lo half of a scaled uint128.Uint128 (64 in the code)
MaxVal == 1    \* the values of V are 0..MaxVal
MaxOps == 3      \* number of calls in a run of Spec and of SpecWide
MaxOpsDeep == 5  \* number of calls in a run of SpecDeep
NumCallers == 2  \* number of goroutines that call a TrieMap concurrently
MaxOpsConc == 3  \* number of calls in a run of SpecConc
NumProcs == 4    \* number of goroutines that call a WaitPool
MaxPool == 3     \* a WaitPool is created with max in 0..MaxPool
MaxNum == 4      \* cidr.Host is called with num in 0..MaxNum

-----------------------------------------------------------------------------
(* net/netip, as far as the package uses it *)

RECURSIVE Pow2(_)
Pow2(n) == IF n <= 0 THEN 1 ELSE 2 * Pow2(n - 1)

\* netip.Addr: z = 4 for an IPv4 address, z = 6 for an IPv6 address.
Addrs ==
    [z : {4}, v : 0 .. Pow2(Bits4) - 1] \cup [z : {6}, v : 0 .. Pow2(Bits6) - 1]

BitLen(a) == IF a.z = 4 THEN Bits4 ELSE Bits6

Is4(a) == a.z = 4

Is4In6(a) == a.z = 6 /\ Bits6 > Bits4 /\ a.v \div Pow2(Bits4) = 1

Unmap(a) == IF Is4In6(a) THEN [z |-> 4, v |-> a.v % Pow2(Bits4)] ELSE a

\* netip.Prefix.Contains: the families are equal (no unmapping) and the
\* leading p.bits bits agree.
Contains(p, ip) ==
    /\ BitLen(p.addr) = BitLen(ip)
    /\ ip.v \div Pow2(BitLen(ip) - p.bits) = p.addr.v \div Pow2(BitLen(ip) - p.bits)

\* The zero value of V, returned by a missing map entry and by a failed Get.
Zero == 0

Values == 0 .. MaxVal

-----------------------------------------------------------------------------
(* Go maps: a function on the set of present keys *)

MapGet(m, k, default) == IF k \in DOMAIN m THEN m[k] ELSE default

MapSet(m, k, v) == [x \in DOMAIN m \cup {k} |-> IF x = k THEN v ELSE m[x]]

MapDelete(m, k) == [x \in DOMAIN m \ {k} |-> m[x]]

EmptyMap == [x \in {} |-> 0]

-----------------------------------------------------------------------------
(* trieMap: the core, netip.Prefix -> int *)

\* addrToUint128: the address as an integer, and its number of bits.
addrToUint128(addr) ==
    IF Is4(Unmap(addr))
    THEN [ip |-> Unmap(addr).v, totalBits |-> Bits4]
    ELSE [ip |-> addr.v, totalBits |-> Bits6]

\* uint128.Uint128.Bit
Bit(ip, i) == (ip \div Pow2(i)) % 2 = 1

\* getRootNode: the root an address selects (4: ipv4Root, 6: ipv6Root).
getRootNode(addr) == IF Is4(Unmap(addr)) THEN 4 ELSE 6

\* The child choices the loops of insert and remove make for a prefix:
\* bits totalBits-1 down to totalBits-bits of its address, first choice first.
RECURSIVE PathBits(_, _, _)
PathBits(ip, totalBits, n) ==
    IF n = 0 THEN <<>>
    ELSE Append(PathBits(ip, totalBits, n - 1),
                IF Bit(ip, totalBits - n) THEN 1 ELSE 0)

PathOf(addr, bits) ==
    PathBits(addrToUint128(addr).ip, addrToUint128(addr).totalBits, bits)

HasValue(t, n) == n \in DOMAIN t.value

HasChild(t, n, b) == <<n[1], Append(n[2], b)>> \in t.nodes

\* The prefixes a malformed-input check upstream lets through: the bit
\* length is within the width the trie walks for the address.
Prefixes ==
    {p \in [addr : Addrs, bits : 0 .. Bits6] :
        p.bits <= addrToUint128(p.addr).totalBits}


ChildOf(n, b) == <<n[1], Append(n[2], b)>>

ParentOf(n) == <<n[1], SubSeq(n[2], 1, Len(n[2]) - 1)>>

\* getLoop taking the value of every node it passes for a match, without
\* asking whether the node's prefix contains the address.
RECURSIVE getLoop_NoContains(_, _, _, _, _)
getLoop_NoContains(t, addr, curr, i, best) ==
    IF i < 0 THEN best
    ELSE
        LET next == ChildOf(curr, IF Bit(addrToUint128(addr).ip, i) THEN 1 ELSE 0)
        IN  IF next \notin t.nodes THEN best
            ELSE IF /\ HasValue(t, next)
                    /\ t.value[next].prefix.bits > best.longestMatchLength
                 THEN getLoop_NoContains(t, addr, next, i - 1,
                              [longestMatchLength |-> t.value[next].prefix.bits,
                               key |-> t.value[next].key, contains |-> TRUE])
                 ELSE getLoop_NoContains(t, addr, next, i - 1, best)

\* The body of the loop of get at bit index i, from node curr on.
RECURSIVE getLoop(_, _, _, _, _)
getLoop(t, addr, curr, i, best) ==
    IF i < 0 THEN best
    ELSE
        LET next == ChildOf(curr, IF Bit(addrToUint128(addr).ip, i) THEN 1 ELSE 0)
        IN  IF next \notin t.nodes THEN best
            ELSE IF /\ HasValue(t, next)
                    /\ Contains(t.value[next].prefix, addr)
                    /\ t.value[next].prefix.bits > best.longestMatchLength
                 THEN getLoop(t, addr, next, i - 1,
                              [longestMatchLength |-> t.value[next].prefix.bits,
                               key |-> t.value[next].key, contains |-> TRUE])
                 ELSE getLoop(t, addr, next, i - 1, best)

\* trieMap.get
get(t, addr) ==
    LET root == <<getRootNode(addr), <<>>>>
        atRoot ==
            IF HasValue(t, root) /\ Contains(t.value[root].prefix, addr)
            THEN [longestMatchLength |-> t.value[root].prefix.bits,
                  key |-> t.value[root].key, contains |-> TRUE]
            ELSE [longestMatchLength |-> -1, key |-> 0, contains |-> FALSE]
        found == getLoop(t, addr, root, addrToUint128(addr).totalBits - 1, atRoot)
    IN  IF root \notin t.nodes
        THEN [key |-> -1, contains |-> FALSE]
        ELSE [key |-> found.key, contains |-> found.contains]

\* insert leaving the reference count of an overwritten key as it was.
insert_NoDecrement(t, prefix, key) ==
    LET r == getRootNode(prefix.addr)
        path == PathOf(prefix.addr, prefix.bits)
        curr == <<r, path>>
        walked == {<<r, SubSeq(path, 1, k)>> : k \in 0 .. prefix.bits}
    IN  [nodes |-> t.nodes \cup walked,
         value |-> MapSet(t.value, curr, [prefix |-> prefix, key |-> key]),
         keyRefs |-> MapSet(t.keyRefs, key, MapGet(t.keyRefs, key, 0) + 1)]

\* trieMap.insert
insert(t, prefix, key) ==
    LET r == getRootNode(prefix.addr)
        path == PathOf(prefix.addr, prefix.bits)
        curr == <<r, path>>
        walked == {<<r, SubSeq(path, 1, k)>> : k \in 0 .. prefix.bits}
        dropped ==
            IF HasValue(t, curr)
            THEN MapSet(t.keyRefs, t.value[curr].key,
                        MapGet(t.keyRefs, t.value[curr].key, 0) - 1)
            ELSE t.keyRefs
    IN  [nodes |-> t.nodes \cup walked,
         value |-> MapSet(t.value, curr, [prefix |-> prefix, key |-> key]),
         keyRefs |-> MapSet(dropped, key, MapGet(dropped, key, 0) + 1)]

\* prune detaching the node on top of the stack only.
prune_OneLevel(t, node) ==
    IF ~HasChild(t, node, 0) /\ ~HasChild(t, node, 1) /\ ~HasValue(t, node)
    THEN IF Len(node[2]) > 0
         THEN [t EXCEPT !.nodes = @ \ {node}]
         ELSE t
    ELSE t

\* prune detaching nothing.
prune_Never(t, node) == t

\* prune, from the node on top of the stack down to the root
RECURSIVE prune(_, _)
prune(t, node) ==
    IF ~HasChild(t, node, 0) /\ ~HasChild(t, node, 1) /\ ~HasValue(t, node)
    THEN IF Len(node[2]) > 0
         THEN prune([t EXCEPT !.nodes = @ \ {node}], ParentOf(node))
         ELSE t
    ELSE t

\* remove clearing whatever value the node at the end of the path holds,
\* without comparing its prefix with the one sought.
remove_AnyPrefix(t, prefix) ==
    LET r == getRootNode(prefix.addr)
        path == PathOf(prefix.addr, prefix.bits)
        curr == <<r, path>>
        walked == \A k \in 0 .. prefix.bits : <<r, SubSeq(path, 1, k)>> \in t.nodes
        key == t.value[curr].key
        refs == MapGet(t.keyRefs, key, 0) - 1
        cleared ==
            [nodes |-> t.nodes,
             value |-> MapDelete(t.value, curr),
             keyRefs |-> IF refs = 0 THEN MapDelete(t.keyRefs, key)
                         ELSE MapSet(t.keyRefs, key, refs)]
    IN  IF walked /\ HasValue(t, curr)
        THEN [t |-> prune(cleared, curr), key |-> key, removed |-> TRUE]
        ELSE [t |-> t, key |-> -1, removed |-> FALSE]

\* trieMap.remove
remove(t, prefix) ==
    LET r == getRootNode(prefix.addr)
        path == PathOf(prefix.addr, prefix.bits)
        curr == <<r, path>>
        walked == \A k \in 0 .. prefix.bits : <<r, SubSeq(path, 1, k)>> \in t.nodes
        key == t.value[curr].key
        refs == MapGet(t.keyRefs, key, 0) - 1
        cleared ==
            [nodes |-> t.nodes,
             value |-> MapDelete(t.value, curr),
             keyRefs |-> IF refs = 0 THEN MapDelete(t.keyRefs, key)
                         ELSE MapSet(t.keyRefs, key, refs)]
    IN  IF walked /\ HasValue(t, curr) /\ t.value[curr].prefix = prefix
        THEN [t |-> prune(cleared, curr), key |-> key, removed |-> TRUE]
        ELSE [t |-> t, key |-> -1, removed |-> FALSE]

\* The traversal of removeAll: the prefixes of the nodes that carry key, in
\* the order the stack visits them.
RECURSIVE collect(_, _, _, _)
collect(t, stack, key, prefixes) ==
    IF stack = <<>> THEN prefixes
    ELSE
        LET curr == stack[Len(stack)]
            popped == SubSeq(stack, 1, Len(stack) - 1)
            with0 == IF HasChild(t, curr, 0) THEN Append(popped, ChildOf(curr, 0))
                     ELSE popped
            with1 == IF HasChild(t, curr, 1) THEN Append(with0, ChildOf(curr, 1))
                     ELSE with0
        IN  collect(t, with1, key,
                    IF HasValue(t, curr) /\ t.value[curr].key = key
                    THEN Append(prefixes, t.value[curr].prefix)
                    ELSE prefixes)

RECURSIVE removeEach(_, _)
removeEach(t, prefixes) ==
    IF prefixes = <<>> THEN t
    ELSE removeEach(remove(t, Head(prefixes)).t, Tail(prefixes))

\* The snapshot removeAll takes: the stack starts with the roots that exist,
\* ipv4Root below ipv6Root.
snapshot(t, key) ==
    LET roots4 == IF <<4, <<>>>> \in t.nodes THEN << <<4, <<>>>> >> ELSE <<>>
        roots == IF <<6, <<>>>> \in t.nodes THEN Append(roots4, <<6, <<>>>>)
                 ELSE roots4
    IN  collect(t, roots, key, <<>>)

\* trieMap.removeAll
removeAll(t, key) == removeEach(t, snapshot(t, key))

-----------------------------------------------------------------------------
(* TrieMap: the facade, netip.Prefix -> V.  A map is the record            *)
(* [trieMap, keyToValue, valueToKey]; a call holds t.mu from its first to  *)
(* its last statement, so each call is one step.                           *)

\* New
New ==
    [trieMap |-> [nodes |-> {}, value |-> EmptyMap, keyRefs |-> EmptyMap],
     keyToValue |-> EmptyMap,
     valueToKey |-> EmptyMap]

\* The key Insert allocates for a value that has none.
newKey(m) == Cardinality(DOMAIN m.keyToValue)

\* Insert allocating a key for every call, without looking the value up in
\* valueToKey first.
Insert_NoLookup(m, prefix, value) ==
    LET key == newKey(m)
    IN  [trieMap |-> insert(m.trieMap, prefix, key),
         keyToValue |-> MapSet(m.keyToValue, key, value),
         valueToKey |-> MapSet(m.valueToKey, value, key),
         key |-> key,
         allocated |-> TRUE]

\* TrieMap.Insert: the map after the call, the key used and whether it was
\* allocated by this call.
Insert(m, prefix, value) ==
    LET alreadyHave == value \in DOMAIN m.valueToKey
        key == IF alreadyHave THEN m.valueToKey[value] ELSE newKey(m)
    IN  [trieMap |-> insert(m.trieMap, prefix, key),
         keyToValue |-> IF alreadyHave THEN m.keyToValue
                        ELSE MapSet(m.keyToValue, key, value),
         valueToKey |-> IF alreadyHave THEN m.valueToKey
                        ELSE MapSet(m.valueToKey, value, key),
         key |-> key,
         allocated |-> ~alreadyHave]

\* TrieMap.Get
Get(m, addr) ==
    LET r == get(m.trieMap, addr)
    IN  [value |-> IF r.contains THEN MapGet(m.keyToValue, r.key, Zero) ELSE Zero,
         contains |-> r.contains]

\* Remove evicting whenever the reference count of the returned key is zero,
\* without asking whether remove succeeded.
Remove_Unchecked(m, prefix) ==
    LET r == remove(m.trieMap, prefix)
        evict == MapGet(r.t.keyRefs, r.key, 0) = 0
        keyToValue1 == MapDelete(m.keyToValue, r.key)
        valueToKey1 == MapDelete(m.valueToKey, MapGet(keyToValue1, r.key, Zero))
    IN  [trieMap |-> r.t,
         keyToValue |-> IF evict THEN keyToValue1 ELSE m.keyToValue,
         valueToKey |-> IF evict THEN valueToKey1 ELSE m.valueToKey,
         removed |-> r.removed]

\* TrieMap.Remove: the map after the call and the result.  The second
\* delete reads keyToValue[key] after the first delete has removed it.
Remove(m, prefix) ==
    LET r == remove(m.trieMap, prefix)
        evict == r.removed /\ MapGet(r.t.keyRefs, r.key, 0) = 0
        keyToValue1 == MapDelete(m.keyToValue, r.key)
        valueToKey1 == MapDelete(m.valueToKey, MapGet(keyToValue1, r.key, Zero))
    IN  [trieMap |-> r.t,
         keyToValue |-> IF evict THEN keyToValue1 ELSE m.keyToValue,
         valueToKey |-> IF evict THEN valueToKey1 ELSE m.valueToKey,
         removed |-> r.removed]

\* TrieMap.RemoveValue
RemoveValue(m, value) ==
    IF value \notin DOMAIN m.valueToKey
    THEN [trieMap |-> m.trieMap, keyToValue |-> m.keyToValue,
          valueToKey |-> m.valueToKey]
    ELSE [trieMap |-> removeAll(m.trieMap, m.valueToKey[value]),
          keyToValue |-> MapDelete(m.keyToValue, m.valueToKey[value]),
          valueToKey |-> MapDelete(m.valueToKey, value)]

\* TrieMap.Empty
Empty(m) ==
    /\ \/ <<4, <<>>>> \notin m.trieMap.nodes
       \/ /\ ~HasChild(m.trieMap, <<4, <<>>>>, 0)
          /\ ~HasChild(m.trieMap, <<4, <<>>>>, 1)
          /\ ~HasValue(m.trieMap, <<4, <<>>>>)
    /\ \/ <<6, <<>>>> \notin m.trieMap.nodes
       \/ /\ ~HasChild(m.trieMap, <<6, <<>>>>, 0)
          /\ ~HasChild(m.trieMap, <<6, <<>>>>, 1)
          /\ ~HasValue(m.trieMap, <<6, <<>>>>)

-----------------------------------------------------------------------------
(* Package cidr *)

\* The netip.Prefix values that are valid: the bit length is within the
\* width of the address.
ValidPrefixes ==
    {p \in [addr : Addrs, bits : 0 .. Bits6] : p.bits <= BitLen(p.addr)}

\* netip.Addr{}, the zero Addr.
ZeroAddr == [z |-> 0, v |-> 0]

\* netip.AddrFrom4 of the last four bytes of a 16-byte value.
AddrFrom4(intVal) == [z |-> 4, v |-> intVal % Pow2(Bits4)]

\* netip.AddrFrom16
AddrFrom16(intVal) == [z |-> 6, v |-> intVal]

\* Host.  The sum is taken for prefix address + num within the width of a
\* Uint128; Hi is what of the sum lies above the Lo half.
Host(prefix, num) ==
    LET intVal == prefix.addr.v + num
        Hi == intVal \div Pow2(LoBits)
        addr == IF Hi = 0 THEN AddrFrom4(intVal) ELSE AddrFrom16(intVal)
    IN  IF ~Contains(prefix, addr)
        THEN [addr |-> ZeroAddr, err |-> "ErrHostNumberOutOfRange"]
        ELSE [addr |-> addr, err |-> "nil"]

-----------------------------------------------------------------------------
(* Package waitpool.  The items themselves, which sync.Pool hands out, are *)
(* not modelled; count, lock and the wait list of cond are.                *)

\* The goroutines.
Procs == 1 .. NumProcs

\* New: lock is 0 when free and the holder otherwise; notify is the list of
\* goroutines asleep in cond.Wait, longest asleep first.
NewPool(max) == [max |-> max, count |-> 0, lock |-> 0, notify |-> <<>>]

\* The condition of the loop of Get letting one caller more through.
Full_OffByOne(p) == p.count > p.max

\* The condition of the loop of Get: all items are in use.
Full(p) == p.count >= p.max

\* Count
Count(p) == p.count

-----------------------------------------------------------------------------
(* The state machine: one caller at a time makes the mutating calls; Get   *)
(* and Empty change nothing and are read off the state.                    *)

\* The map the variables hold.
Map == [trieMap |-> trieMap, keyToValue |-> keyToValue, valueToKey |-> valueToKey]

\* The prefixes the nodes of a trie store.
Stored(t) == {t.value[n].prefix : n \in DOMAIN t.value}

\* The prefix field of last for a call that takes none.
NoPrefix == [addr |-> [z |-> 0, v |-> 0], bits |-> 0]

\* The locals of a goroutine that is in no call.
NoCall == [op |-> "none", prefix |-> NoPrefix, addr |-> ZeroAddr, value |-> Zero,
           key |-> -1, found |-> FALSE, result |-> <<>>, expect |-> <<>>]

\* No call of Host.
NoHostCall ==
    [prefix |-> NoPrefix, num |-> 0, returned |-> FALSE,
     addr |-> ZeroAddr, err |-> "nil"]

\* A new map, no goroutine in a call.
InitTrie ==
    /\ trieMap = New.trieMap
    /\ keyToValue = New.keyToValue
    /\ valueToKey = New.valueToKey
    /\ bound = EmptyMap
    /\ allocated = {}
    /\ last = [op |-> "New", prefix |-> NoPrefix, value |-> Zero, removed |-> FALSE]
    /\ ops = 0
    /\ mu = [writer |-> 0, readers |-> {}]
    /\ pc = [p \in Procs |-> "idle"]
    /\ locals = [p \in Procs |-> NoCall]
    /\ abstract = New

Init ==
    /\ InitTrie
    /\ waitPool = NewPool(0)
    /\ hostCall = NoHostCall

CallInsert(prefix, value) ==
    LET r == Insert(Map, prefix, value)
    IN  /\ trieMap' = r.trieMap
        /\ keyToValue' = r.keyToValue
        /\ valueToKey' = r.valueToKey
        /\ bound' = [p \in Stored(r.trieMap) |->
                        IF p = prefix THEN value ELSE bound[p]]
        /\ allocated' = IF r.allocated THEN allocated \cup {r.key} ELSE allocated
        /\ last' = [op |-> "Insert", prefix |-> prefix, value |-> value,
                    removed |-> FALSE]
        /\ ops' = ops + 1
        /\ UNCHANGED otherVars

CallRemove(prefix) ==
    LET r == Remove(Map, prefix)
    IN  /\ trieMap' = r.trieMap
        /\ keyToValue' = r.keyToValue
        /\ valueToKey' = r.valueToKey
        /\ bound' = [p \in Stored(r.trieMap) |-> bound[p]]
        /\ last' = [op |-> "Remove", prefix |-> prefix, value |-> Zero,
                    removed |-> r.removed]
        /\ ops' = ops + 1
        /\ UNCHANGED allocated
        /\ UNCHANGED otherVars

CallRemoveValue(value) ==
    LET r == RemoveValue(Map, value)
    IN  /\ trieMap' = r.trieMap
        /\ keyToValue' = r.keyToValue
        /\ valueToKey' = r.valueToKey
        /\ bound' = [p \in Stored(r.trieMap) |-> bound[p]]
        /\ last' = [op |-> "RemoveValue", prefix |-> NoPrefix, value |-> value,
                    removed |-> FALSE]
        /\ ops' = ops + 1
        /\ UNCHANGED allocated
        /\ UNCHANGED otherVars

\* Seven prefixes that between them reach every branch of the trie code:
\* 0.0.0.0/0 and its spelling with host bits set, 255.255.255.255/0; the
\* longest prefix of 255.255.255.255; ::/0 and the two longest prefixes of ::;
\* and a prefix of an IPv4-mapped address, which insert files under the IPv4
\* root by the bits of the unmapped address: the longest one the IPv4 walk
\* can take of the last mapped address, whose node is that of the longest
\* prefix of 255.255.255.255.
CorePrefixes ==
    {p \in Prefixes :
        \/ Is4(p.addr) /\ p.addr.v = 0 /\ p.bits = 0
        \/ Is4(p.addr) /\ p.addr.v = Pow2(Bits4) - 1 /\ p.bits \in {0, Bits4}
        \/ ~Is4(p.addr) /\ p.addr.v = 0 /\ p.bits \in {0, Bits6 - 1, Bits6}
        \/ ~Is4(p.addr) /\ p.addr.v = 2 * Pow2(Bits4) - 1 /\ p.bits = Bits4}

\* Runs of MaxOps calls with the prefixes of CorePrefixes and every value.
Next ==
    \/ \E prefix \in CorePrefixes, value \in Values :
          ops < MaxOps /\ CallInsert(prefix, value)
    \/ \E prefix \in CorePrefixes :
          ops < MaxOps /\ CallRemove(prefix)
    \/ \E value \in Values :
          ops < MaxOps /\ CallRemoveValue(value)

Spec == Init /\ [][Next]_vars

\* Runs of MaxOps calls with every prefix and every value.
NextWide ==
    \/ \E prefix \in Prefixes, value \in Values :
          ops < MaxOps /\ CallInsert(prefix, value)
    \/ \E prefix \in Prefixes :
          ops < MaxOps /\ CallRemove(prefix)
    \/ \E value \in Values :
          ops < MaxOps /\ CallRemoveValue(value)

SpecWide == Init /\ [][NextWide]_vars

\* Longer runs, of MaxOpsDeep calls, with four prefixes: 0.0.0.0/0 and the
\* longest prefix of 0.0.0.0, and the two longest prefixes of ::.
DeepPrefixes ==
    {p \in Prefixes :
        /\ p.addr.v = 0
        /\ p.bits \in (IF p.addr.z = 4 THEN {0, Bits4} ELSE {Bits6 - 1, Bits6})}

NextDeep ==
    \/ \E prefix \in DeepPrefixes, value \in Values :
          ops < MaxOpsDeep /\ CallInsert(prefix, value)
    \/ \E prefix \in DeepPrefixes :
          ops < MaxOpsDeep /\ CallRemove(prefix)
    \/ \E value \in Values :
          ops < MaxOpsDeep /\ CallRemoveValue(value)

SpecDeep == Init /\ [][NextDeep]_vars

\* Calls of Host with every valid prefix and every num of 0..MaxNum whose
\* sum with the prefix address fits a Uint128.
InitHost ==
    /\ InitTrie
    /\ waitPool = NewPool(0)
    /\ hostCall \in
          {[prefix |-> p, num |-> n, returned |-> FALSE,
            addr |-> ZeroAddr, err |-> "nil"] :
              p \in ValidPrefixes,
              n \in 0 .. MaxNum}
    /\ hostCall.prefix.addr.v + hostCall.num < Pow2(Bits6)

CallHost ==
    /\ ~hostCall.returned
    /\ hostCall' = [hostCall EXCEPT
                       !.returned = TRUE,
                       !.addr = Host(hostCall.prefix, hostCall.num).addr,
                       !.err = Host(hostCall.prefix, hostCall.num).err]
    /\ UNCHANGED <<trieVars, mu, pc, locals, abstract, waitPool>>

NextHost == CallHost

SpecHost == InitHost /\ [][NextHost]_vars

-----------------------------------------------------------------------------
(* The goroutines that call a WaitPool.  pc is "idle" for a goroutine that  *)
(* holds no item and is in no call, "has" for one that holds an item Get   *)
(* returned, and names the statement it is at inside Get or Put otherwise. *)
(* A goroutine puts back the item it holds.                                *)

\* What the steps of Get and Put leave alone.
poolFrame == <<trieVars, mu, locals, abstract, hostCall>>

\* A pool of every max of 0..MaxPool.
InitPool ==
    /\ InitTrie
    /\ waitPool \in {NewPool(max) : max \in 0 .. MaxPool}
    /\ hostCall = NoHostCall

\* Get is called: if p.max != 0
GetStart(p) ==
    /\ pc[p] = "idle"
    /\ pc' = [pc EXCEPT ![p] = IF waitPool.max # 0 THEN "Lock" ELSE "PoolGet"]
    /\ UNCHANGED <<waitPool, poolFrame>>

\* p.lock.Lock()
GetLock(p) ==
    /\ pc[p] = "Lock"
    /\ waitPool.lock = 0
    /\ waitPool' = [waitPool EXCEPT !.lock = p]
    /\ pc' = [pc EXCEPT ![p] = "Load"]
    /\ UNCHANGED poolFrame

\* for uint32(p.count.Load()) >= p.max
GetLoad(p) ==
    /\ pc[p] = "Load"
    /\ pc' = [pc EXCEPT ![p] = IF Full(waitPool) THEN "Wait" ELSE "Add"]
    /\ UNCHANGED <<waitPool, poolFrame>>

\* p.cond.Wait(), first half: join the wait list, unlock, and sleep.
GetWait(p) ==
    /\ pc[p] = "Wait"
    /\ waitPool' = [waitPool EXCEPT !.notify = Append(@, p), !.lock = 0]
    /\ pc' = [pc EXCEPT ![p] = "asleep"]
    /\ UNCHANGED poolFrame

\* p.cond.Wait(), second half: once notified, lock again and return.
GetWake(p) ==
    /\ pc[p] = "woken"
    /\ waitPool.lock = 0
    /\ waitPool' = [waitPool EXCEPT !.lock = p]
    /\ pc' = [pc EXCEPT ![p] = "Load"]
    /\ UNCHANGED poolFrame

\* p.count.Add(1)
GetAdd(p) ==
    /\ pc[p] = "Add"
    /\ waitPool' = [waitPool EXCEPT !.count = @ + 1]
    /\ pc' = [pc EXCEPT ![p] = "Unlock"]
    /\ UNCHANGED poolFrame

\* p.lock.Unlock()
GetUnlock(p) ==
    /\ pc[p] = "Unlock"
    /\ waitPool' = [waitPool EXCEPT !.lock = 0]
    /\ pc' = [pc EXCEPT ![p] = "PoolGet"]
    /\ UNCHANGED poolFrame

\* return p.pool.Get().(T)
GetReturn(p) ==
    /\ pc[p] = "PoolGet"
    /\ pc' = [pc EXCEPT ![p] = "has"]
    /\ UNCHANGED <<waitPool, poolFrame>>

\* Put is called: p.pool.Put(x); if p.max == 0 { return }
PutStart(p) ==
    /\ pc[p] = "has"
    /\ pc' = [pc EXCEPT ![p] = IF waitPool.max = 0 THEN "idle" ELSE "Dec"]
    /\ UNCHANGED <<waitPool, poolFrame>>

\* p.count.Add(-1)
PutDec(p) ==
    /\ pc[p] = "Dec"
    /\ waitPool' = [waitPool EXCEPT !.count = @ - 1]
    /\ pc' = [pc EXCEPT ![p] = "Signal"]
    /\ UNCHANGED poolFrame

\* p.cond.Signal(): wake the goroutine longest asleep, if there is one.
PutSignal(p) ==
    /\ pc[p] = "Signal"
    /\ IF waitPool.notify = <<>>
       THEN /\ pc' = [pc EXCEPT ![p] = "idle"]
            /\ UNCHANGED waitPool
       ELSE /\ pc' = [pc EXCEPT ![p] = "idle", ![Head(waitPool.notify)] = "woken"]
            /\ waitPool' = [waitPool EXCEPT !.notify = Tail(@)]
    /\ UNCHANGED poolFrame

NextPool ==
    \/ \E p \in Procs : GetStart(p)
    \/ \E p \in Procs : GetLock(p)
    \/ \E p \in Procs : GetLoad(p)
    \/ \E p \in Procs : GetWait(p)
    \/ \E p \in Procs : GetWake(p)
    \/ \E p \in Procs : GetAdd(p)
    \/ \E p \in Procs : GetUnlock(p)
    \/ \E p \in Procs : GetReturn(p)
    \/ \E p \in Procs : PutStart(p)
    \/ \E p \in Procs : PutDec(p)
    \/ \E p \in Procs : PutSignal(p)

SpecPool == InitPool /\ [][NextPool]_vars

-----------------------------------------------------------------------------
(* Concurrent callers of a TrieMap.  Every method locks t.mu in its first  *)
(* statement and unlocks it, deferred, on return; in between it runs the   *)
(* statements of its body one step at a time.  A caller blocked in Lock or *)
(* RLock has changed nothing yet, so a call begins when it gets the lock.  *)
(* abstract is the map as the calls would leave it were each one a single  *)
(* step taken when it gets the lock, and locals[p].expect the result that  *)
(* step would return.                                                      *)

Callers == 1 .. NumCallers

\* t.mu.Lock() taking the lock while readers hold it.
CanLock_IgnoreReaders(m) == m.writer = 0

\* t.mu.Lock() can return: nobody holds the lock.
CanLock(m) == m.writer = 0 /\ m.readers = {}

\* t.mu.RLock() can return: no writer holds the lock.
CanRLock(m) == m.writer = 0

\* What the steps of a call leave alone.
concFrame == <<bound, allocated, last, waitPool, hostCall>>

\* The histories abstract and ops when a call with the given atomic outcome
\* begins.
Begin(p, call, after) ==
    /\ pc[p] = "idle"
    /\ locals' = [locals EXCEPT ![p] = call]
    /\ abstract' = [trieMap |-> after.trieMap, keyToValue |-> after.keyToValue,
                    valueToKey |-> after.valueToKey]
    /\ ops' = ops + 1
    /\ UNCHANGED <<trieMap, keyToValue, valueToKey, concFrame>>

\* Insert: t.mu.Lock()
InsertBegin(p, prefix, value) ==
    /\ CanLock(mu)
    /\ mu' = [mu EXCEPT !.writer = p]
    /\ pc' = [pc EXCEPT ![p] = "Insert:81"]
    /\ Begin(p, [NoCall EXCEPT !.op = "Insert", !.prefix = prefix, !.value = value],
             Insert(abstract, prefix, value))

\* Insert: key, alreadyHave := t.valueToKey[value]; if !alreadyHave { ... }
InsertRegistry(p) ==
    /\ pc[p] = "Insert:81"
    /\ LET r == Insert(Map, locals[p].prefix, locals[p].value)
       IN  /\ keyToValue' = r.keyToValue
           /\ valueToKey' = r.valueToKey
           /\ locals' = [locals EXCEPT ![p].key = r.key]
    /\ pc' = [pc EXCEPT ![p] = "Insert:87"]
    /\ UNCHANGED <<trieMap, mu, abstract, ops, concFrame>>

\* Insert: t.trieMap.insert(prefix, key)
InsertTrie(p) ==
    /\ pc[p] = "Insert:87"
    /\ trieMap' = insert(trieMap, locals[p].prefix, locals[p].key)
    /\ pc' = [pc EXCEPT ![p] = "Unlock"]
    /\ UNCHANGED <<keyToValue, valueToKey, locals, mu, abstract, ops, concFrame>>

\* Remove: t.mu.Lock()
RemoveBegin(p, prefix) ==
    /\ CanLock(mu)
    /\ mu' = [mu EXCEPT !.writer = p]
    /\ pc' = [pc EXCEPT ![p] = "Remove:109"]
    /\ Begin(p, [NoCall EXCEPT !.op = "Remove", !.prefix = prefix,
                               !.expect = Remove(abstract, prefix).removed],
             Remove(abstract, prefix))

\* Remove: key, removed := t.trieMap.remove(prefix)
RemoveTrie(p) ==
    /\ pc[p] = "Remove:109"
    /\ LET r == remove(trieMap, locals[p].prefix)
       IN  /\ trieMap' = r.t
           /\ locals' = [locals EXCEPT ![p].key = r.key, ![p].found = r.removed]
    /\ pc' = [pc EXCEPT ![p] = "Remove:111"]
    /\ UNCHANGED <<keyToValue, valueToKey, mu, abstract, ops, concFrame>>

\* Remove: if removed && t.trieMap.keyRefs[key] == 0 { delete; delete };
\* return removed
RemoveEvict(p) ==
    /\ pc[p] = "Remove:111"
    /\ LET key == locals[p].key
           evict == locals[p].found /\ MapGet(trieMap.keyRefs, key, 0) = 0
           keyToValue1 == MapDelete(keyToValue, key)
       IN  /\ keyToValue' = IF evict THEN keyToValue1 ELSE keyToValue
           /\ valueToKey' = IF evict
                            THEN MapDelete(valueToKey, MapGet(keyToValue1, key, Zero))
                            ELSE valueToKey
    /\ locals' = [locals EXCEPT ![p].result = locals[p].found]
    /\ pc' = [pc EXCEPT ![p] = "Unlock"]
    /\ UNCHANGED <<trieMap, mu, abstract, ops, concFrame>>

\* RemoveValue: t.mu.Lock()
RemoveValueBegin(p, value) ==
    /\ CanLock(mu)
    /\ mu' = [mu EXCEPT !.writer = p]
    /\ pc' = [pc EXCEPT ![p] = "RemoveValue:123"]
    /\ Begin(p, [NoCall EXCEPT !.op = "RemoveValue", !.value = value],
             RemoveValue(abstract, value))

\* RemoveValue: key, contains := t.valueToKey[value]; if !contains { return }
RemoveValueLookup(p) ==
    /\ pc[p] = "RemoveValue:123"
    /\ locals' = [locals EXCEPT
                     ![p].key = MapGet(valueToKey, locals[p].value, 0),
                     ![p].found = locals[p].value \in DOMAIN valueToKey]
    /\ pc' = [pc EXCEPT ![p] = IF locals[p].value \in DOMAIN valueToKey
                               THEN "RemoveValue:127" ELSE "Unlock"]
    /\ UNCHANGED <<trieMap, keyToValue, valueToKey, mu, abstract, ops, concFrame>>

\* RemoveValue: t.trieMap.removeAll(key)
RemoveValueTrie(p) ==
    /\ pc[p] = "RemoveValue:127"
    /\ trieMap' = removeAll(trieMap, locals[p].key)
    /\ pc' = [pc EXCEPT ![p] = "RemoveValue:128"]
    /\ UNCHANGED <<keyToValue, valueToKey, locals, mu, abstract, ops, concFrame>>

\* RemoveValue: delete(t.keyToValue, key); delete(t.valueToKey, value)
RemoveValueEvict(p) ==
    /\ pc[p] = "RemoveValue:128"
    /\ keyToValue' = MapDelete(keyToValue, locals[p].key)
    /\ valueToKey' = MapDelete(valueToKey, locals[p].value)
    /\ pc' = [pc EXCEPT ![p] = "Unlock"]
    /\ UNCHANGED <<trieMap, locals, mu, abstract, ops, concFrame>>

\* The deferred t.mu.Unlock() of Insert, Remove and RemoveValue.
Unlock(p) ==
    /\ pc[p] = "Unlock"
    /\ mu' = [mu EXCEPT !.writer = 0]
    /\ pc' = [pc EXCEPT ![p] = "idle"]
    /\ locals' = [locals EXCEPT ![p] = NoCall]
    /\ UNCHANGED <<trieMap, keyToValue, valueToKey, abstract, ops, concFrame>>

\* Get: t.mu.RLock()
GetBegin(p, addr) ==
    /\ CanRLock(mu)
    /\ mu' = [mu EXCEPT !.readers = @ \cup {p}]
    /\ pc' = [pc EXCEPT ![p] = "Get:96"]
    /\ Begin(p, [NoCall EXCEPT !.op = "Get", !.addr = addr,
                               !.expect = Get(abstract, addr)],
             abstract)

\* Get: key, contains := t.trieMap.get(addr)
GetKey(p) ==
    /\ pc[p] = "Get:96"
    /\ locals' = [locals EXCEPT ![p].key = get(trieMap, locals[p].addr).key,
                                ![p].found = get(trieMap, locals[p].addr).contains]
    /\ pc' = [pc EXCEPT ![p] = "Get:97"]
    /\ UNCHANGED <<trieMap, keyToValue, valueToKey, mu, abstract, ops, concFrame>>

\* Get: if contains { value = t.keyToValue[key] }; return
GetValue(p) ==
    /\ pc[p] = "Get:97"
    /\ locals' = [locals EXCEPT ![p].result =
                     [value |-> IF locals[p].found
                                THEN MapGet(keyToValue, locals[p].key, Zero)
                                ELSE Zero,
                      contains |-> locals[p].found]]
    /\ pc' = [pc EXCEPT ![p] = "RUnlock"]
    /\ UNCHANGED <<trieMap, keyToValue, valueToKey, mu, abstract, ops, concFrame>>

\* Empty: t.mu.RLock()
EmptyBegin(p) ==
    /\ CanRLock(mu)
    /\ mu' = [mu EXCEPT !.readers = @ \cup {p}]
    /\ pc' = [pc EXCEPT ![p] = "Empty:137"]
    /\ Begin(p, [NoCall EXCEPT !.op = "Empty", !.expect = Empty(abstract)],
             abstract)

\* Empty: read the roots and return
EmptyRead(p) ==
    /\ pc[p] = "Empty:137"
    /\ locals' = [locals EXCEPT ![p].result = Empty(Map)]
    /\ pc' = [pc EXCEPT ![p] = "RUnlock"]
    /\ UNCHANGED <<trieMap, keyToValue, valueToKey, mu, abstract, ops, concFrame>>

\* The deferred t.mu.RUnlock() of Get and Empty.
RUnlock(p) ==
    /\ pc[p] = "RUnlock"
    /\ mu' = [mu EXCEPT !.readers = @ \ {p}]
    /\ pc' = [pc EXCEPT ![p] = "idle"]
    /\ locals' = [locals EXCEPT ![p] = NoCall]
    /\ UNCHANGED <<trieMap, keyToValue, valueToKey, abstract, ops, concFrame>>

\* The arguments of the concurrent calls: 0.0.0.0/0 and the longest prefix
\* of 0.0.0.0, and the address 0.0.0.0.
ConcPrefixes == {p \in DeepPrefixes : Is4(p.addr)}

ConcAddrs == {a \in Addrs : Is4(a) /\ a.v = 0}

NextConc ==
    \/ \E p \in Callers, prefix \in ConcPrefixes, value \in Values :
          ops < MaxOpsConc /\ InsertBegin(p, prefix, value)
    \/ \E p \in Callers : InsertRegistry(p)
    \/ \E p \in Callers : InsertTrie(p)
    \/ \E p \in Callers, prefix \in ConcPrefixes :
          ops < MaxOpsConc /\ RemoveBegin(p, prefix)
    \/ \E p \in Callers : RemoveTrie(p)
    \/ \E p \in Callers : RemoveEvict(p)
    \/ \E p \in Callers, value \in Values :
          ops < MaxOpsConc /\ RemoveValueBegin(p, value)
    \/ \E p \in Callers : RemoveValueLookup(p)
    \/ \E p \in Callers : RemoveValueTrie(p)
    \/ \E p \in Callers : RemoveValueEvict(p)
    \/ \E p \in Callers : Unlock(p)
    \/ \E p \in Callers, addr \in ConcAddrs :
          ops < MaxOpsConc /\ GetBegin(p, addr)
    \/ \E p \in Callers : GetKey(p)
    \/ \E p \in Callers : GetValue(p)
    \/ \E p \in Callers : ops < MaxOpsConc /\ EmptyBegin(p)
    \/ \E p \in Callers : EmptyRead(p)
    \/ \E p \in Callers : RUnlock(p)

SpecConc == Init /\ [][NextConc]_vars

TypeOK ==
    /\ trieMap.nodes \subseteq ({4, 6} \X Seq({0, 1}))
    /\ DOMAIN trieMap.value \subseteq trieMap.nodes
    /\ ops \in 0 .. MaxOpsDeep


-----------------------------------------------------------------------------
(* What the claims speak of.  last' names the call a step makes and its    *)
(* arguments, so a property of the steps CallRemove(prefix) is stated for  *)
(* prefix = last'.prefix.                                                   *)

\* The stored prefixes that contain an address.
Covering(t, a) == {p \in Stored(t) : Contains(p, a)}

\* The longest of them.
Longest(t, a) ==
    CHOOSE p \in Covering(t, a) : \A q \in Covering(t, a) : q.bits <= p.bits

NotFound == [value |-> Zero, contains |-> FALSE]

Found(v) == [value |-> v, contains |-> TRUE]

\* The keys the nodes of a trie hold.
HeldKeys(t) == {t.value[n].key : n \in DOMAIN t.value}

-----------------------------------------------------------------------------
\* C1: after any sequence of Insert, Remove and RemoveValue, for every address
\* contained in a stored prefix, Get returns the value last inserted at the
\* longest stored prefix that contains the address, and true.
C1_LongestMatch ==
    \A a \in Addrs :
        Covering(trieMap, a) # {} =>
            Get(Map, a) = Found(bound[Longest(trieMap, a)])

\* C2: a key Insert allocates is greater than every key allocated before, and
\* is held by no trie node.
C2_KeysNeverReused ==
    [][\A prefix \in {last'.prefix}, value \in {last'.value} :
          (CallInsert(prefix, value) /\ Insert(Map, prefix, value).allocated) =>
              /\ \A k \in allocated : Insert(Map, prefix, value).key > k
              /\ Insert(Map, prefix, value).key \notin HeldKeys(trieMap)]_vars

\* C3: in every reachable state, for every address that no stored prefix
\* contains, Get returns the zero value and false.
C3_NotFound ==
    \A a \in Addrs : Covering(trieMap, a) = {} => Get(Map, a) = NotFound

\* A removal has left prefixes behind, and the walk of get passes a node with
\* a value for an address that no stored prefix contains.
C3_Witness ==
    /\ last.op = "Remove" /\ last.removed
    /\ \E a \in Addrs :
          /\ Covering(trieMap, a) = {}
          /\ HasValue(trieMap, <<getRootNode(a), <<>>>>)

\* C4: after RemoveValue(V) no stored prefix is bound to V, every address
\* whose covering prefixes were all bound to V is not found, and no Get
\* returns V.
C4_RemoveValueRemovesAll ==
    [][\A value \in {last'.value} :
          CallRemoveValue(value) =>
              /\ \A p \in Stored(trieMap') : bound'[p] # value
              /\ \A a \in Addrs :
                    (\A p \in Covering(trieMap, a) : bound[p] = value) =>
                        Get(Map', a) = NotFound
              /\ \A a \in Addrs : Get(Map', a) # Found(value)]_vars


\* C5: Remove(P) returns true iff a node stored exactly P before the call;
\* after a true return no node stores P, and every address that only P
\* covered is not found.
C5_RemoveExact ==
    [][\A prefix \in {last'.prefix} :
          CallRemove(prefix) =>
              /\ last'.removed = (prefix \in Stored(trieMap))
              /\ last'.removed =>
                    /\ prefix \notin Stored(trieMap')
                    /\ \A a \in Addrs :
                          Covering(trieMap, a) = {prefix} =>
                              Get(Map', a) = NotFound]_vars

\* A Remove has returned true, other prefixes are still stored, and an address
\* of the removed prefix is covered by none of them.
C5_Witness ==
    /\ last.op = "Remove" /\ last.removed
    /\ Stored(trieMap) # {}
    /\ \E a \in Addrs : Contains(last.prefix, a) /\ Covering(trieMap, a) = {}

\* C6: when P1 and P2 are bound to the same value V, a successful Remove(P1)
\* leaves P2 stored, and Get of every address whose longest stored prefix is
\* P2 returns V and true.
C6_RemoveKeepsOther ==
    [][\A p1 \in {last'.prefix} :
          (CallRemove(p1) /\ last'.removed) =>
              \A p2 \in Stored(trieMap) \ {p1} :
                  bound[p2] = bound[p1] =>
                      /\ p2 \in Stored(trieMap')
                      /\ \A a \in Addrs :
                            (Covering(trieMap', a) # {} /\ Longest(trieMap', a) = p2) =>
                                Get(Map', a) = Found(bound[p1])]_vars

\* C7: Insert(P, V2) at a prefix P bound to another value V1 leaves one
\* binding at P: Get of every address whose longest stored prefix is P returns
\* V2 and true, and one Remove(P) leaves P unstored.
C7_InsertReplaces ==
    [][\A prefix \in {last'.prefix}, value \in {last'.value} :
          (/\ CallInsert(prefix, value)
           /\ prefix \in Stored(trieMap)
           /\ bound[prefix] # value) =>
              /\ Cardinality({n \in DOMAIN trieMap'.value :
                                 trieMap'.value[n].prefix = prefix}) = 1
              /\ \A a \in Addrs :
                    (Covering(trieMap', a) # {} /\ Longest(trieMap', a) = prefix) =>
                        Get(Map', a) = Found(value)
              /\ Remove(Map', prefix).removed
              /\ prefix \notin Stored(Remove(Map', prefix).trieMap)]_vars

\* C8: an Insert or a Remove of a prefix of one family leaves the result of
\* Get unchanged for every address of the other family.
C8_FamiliesIndependent ==
    [][\A prefix \in {last'.prefix} :
          (CallRemove(prefix) \/ CallInsert(prefix, last'.value)) =>
              \A a \in Addrs :
                  a.z # prefix.addr.z => Get(Map', a) = Get(Map, a)]_vars

\* C9: Empty is true on a new map and whenever no prefix is stored, and false
\* right after an Insert.
C9_Empty ==
    /\ Stored(trieMap) = {} => Empty(Map)
    /\ last.op = "Insert" => ~Empty(Map)

\* Every prefix has been removed again, and both roots are allocated.
C9_Witness ==
    /\ last.op \in {"Remove", "RemoveValue"}
    /\ Stored(trieMap) = {}
    /\ trieMap.nodes = {<<4, <<>>>>, <<6, <<>>>>}

\* C10: a Remove that returns false changes neither the trie nor the
\* registry, so Get and Empty answer as before.
C10_RemoveMissNoOp ==
    [][\A prefix \in {last'.prefix} :
          (CallRemove(prefix) /\ ~last'.removed) =>
              /\ trieMap' = trieMap
              /\ keyToValue' = keyToValue
              /\ valueToKey' = valueToKey
              /\ \A a \in Addrs : Get(Map', a) = Get(Map, a)
              /\ Empty(Map') = Empty(Map)]_vars

\* A Remove has returned false at a node that stores another prefix of the
\* same length, while the zero value is registered.
C10_Witness ==
    /\ last.op = "Remove" /\ ~last.removed
    /\ HasValue(trieMap, <<getRootNode(last.prefix.addr),
                           PathOf(last.prefix.addr, last.prefix.bits)>>)
    /\ Zero \in DOMAIN valueToKey


\* The nodes of a trie that carry key k.
NodesWith(t, k) == {n \in DOMAIN t.value : t.value[n].key = k}

\* The range of a Go map.
MapValues(m) == {m[k] : k \in DOMAIN m}

\* C12: a zero-length prefix is stored at the root node of its family, Get
\* returns its value for every address of that family that no longer stored
\* prefix contains, and it matches no address of the other family.
C12_ZeroLengthPrefix ==
    \A p \in Stored(trieMap) :
        p.bits = 0 =>
            /\ HasValue(trieMap, <<p.addr.z, <<>>>>)
            /\ trieMap.value[<<p.addr.z, <<>>>>].prefix = p
            /\ \A a \in Addrs :
                  (a.z = p.addr.z /\ \A q \in Covering(trieMap, a) : q.bits = 0) =>
                      Get(Map, a) = Found(bound[p])
            /\ \A a \in Addrs :
                  (a.z # p.addr.z /\ Covering(trieMap, a) = {}) =>
                      ~Get(Map, a).contains

\* C17: after every call, every key of keyToValue, every key valueToKey maps
\* to and every key with an entry in keyRefs is held by some trie node.
C17_NoOrphanKeys ==
    (DOMAIN keyToValue \cup MapValues(valueToKey) \cup DOMAIN trieMap.keyRefs)
        \subseteq HeldKeys(trieMap)

\* C18: a successful Remove(P) that leaves the removed key without references
\* deletes the key from keyToValue and the value that was bound to P from
\* valueToKey, and deletes the entry of no other value.
C18_RemoveEvicts ==
    [][\A prefix \in {last'.prefix} :
          (/\ CallRemove(prefix)
           /\ last'.removed
           /\ MapGet(trieMap'.keyRefs, remove(trieMap, prefix).key, 0) = 0) =>
              /\ remove(trieMap, prefix).key \notin DOMAIN keyToValue'
              /\ bound[prefix] \notin DOMAIN valueToKey'
              /\ \A v \in DOMAIN valueToKey \ {bound[prefix]} :
                    v \in DOMAIN valueToKey' /\ valueToKey'[v] = valueToKey[v]]_vars

\* C19: in every reachable state the reference count of every key, 0 when
\* keyRefs has no entry for it, is the number of trie nodes that carry the key.
C19_RefCounts ==
    \A k \in HeldKeys(trieMap) \cup DOMAIN trieMap.keyRefs :
        MapGet(trieMap.keyRefs, k, 0) = Cardinality(NodesWith(trieMap, k))

\* An Insert has overwritten a binding of another key, whose count is down to
\* zero, while some key is carried by two nodes.
C19_Witness ==
    /\ last.op = "Insert"
    /\ \E k \in DOMAIN trieMap.keyRefs : trieMap.keyRefs[k] = 0
    /\ \E k \in HeldKeys(trieMap) : Cardinality(NodesWith(trieMap, k)) = 2

\* C20: after every call no trie node, a root included, is without both
\* value and children.
C20_NoEmptyNodes ==
    \A n \in trieMap.nodes :
        HasValue(trieMap, n) \/ HasChild(trieMap, n, 0) \/ HasChild(trieMap, n, 1)

\* C20 as amended: after every call no trie node other than a root is without
\* both value and children.
C20_NoEmptyNonRootNodes ==
    \A n \in trieMap.nodes :
        Len(n[2]) > 0 =>
            HasValue(trieMap, n) \/ HasChild(trieMap, n, 0) \/ HasChild(trieMap, n, 1)

\* A Remove has pruned a chain of two nodes or more below a root that stays.
C20_Witness ==
    /\ last.op = "Remove" /\ last.removed /\ last.prefix.bits >= 2
    /\ <<getRootNode(last.prefix.addr), <<>>>> \in trieMap.nodes
    /\ <<getRootNode(last.prefix.addr), PathOf(last.prefix.addr, 1)>>
           \notin trieMap.nodes

\* C16: Host(prefix, n) returns, without error, the address of the prefix's
\* family whose value is the prefix address plus n when that address lies
\* inside the prefix, and ErrHostNumberOutOfRange exactly when it lies
\* outside.
C16_Host ==
    hostCall.returned =>
        LET sum == hostCall.prefix.addr.v + hostCall.num
            target == [z |-> hostCall.prefix.addr.z, v |-> sum]
            inside == /\ sum < Pow2(BitLen(hostCall.prefix.addr))
                      /\ Contains(hostCall.prefix, target)
        IN  IF inside
            THEN hostCall.addr = target /\ hostCall.err = "nil"
            ELSE hostCall.err = "ErrHostNumberOutOfRange"

\* The items in use: those a Get has returned and no Put has been given yet.
InUse == Cardinality({p \in Procs : pc[p] = "has"})

\* C13: for a pool with max > 0, under every interleaving of Get and Put the
\* number of items in use never exceeds max, and no Get returns while max
\* items are in use.
C13_Bounded ==
    [][waitPool.max > 0 =>
          /\ InUse' <= waitPool.max
          /\ \A p \in Procs : GetReturn(p) => InUse < waitPool.max]_vars

\* A Get is asleep in cond.Wait while max items are in use.
C13_Witness ==
    /\ waitPool.max > 0
    /\ InUse = waitPool.max
    /\ \E p \in Procs : pc[p] = "asleep"

\* C14: a Get blocked in cond.Wait returns once a Put has made an item
\* available.  As a property of states: while a Get is asleep and the count
\* is below max, some goroutine is still inside Get or Put, to signal the
\* sleeper or to take the item; otherwise nothing will ever wake it.
C14_NoLostWakeup ==
    \A p \in Procs :
        (pc[p] = "asleep" /\ ~Full(waitPool)) =>
            \E q \in Procs : pc[q] \notin {"idle", "has", "asleep"}

\* C15: Count returns the number of items in use, for a pool created with
\* max = 0 as well; stated for the states in which no call is in progress,
\* where Gets returned minus Puts completed is the number of items held.
C15_Count ==
    (\A p \in Procs : pc[p] \in {"idle", "has"}) => Count(waitPool) = InUse

\* The callers inside the body of a mutating call, and inside that of a
\* reading call.
InWrite ==
    {p \in Callers : locals[p].op \in {"Insert", "Remove", "RemoveValue"}
                     /\ pc[p] # "idle"}

InRead == {p \in Callers : locals[p].op \in {"Get", "Empty"} /\ pc[p] # "idle"}

\* C11: under concurrent callers a mutating call runs in mutual exclusion
\* with every other call, a state with no mutating call in progress is the
\* state whole calls, one at a time in the order they got the lock, leave,
\* and every call returns what it returns in that order.
C11_Linearizable ==
    /\ Cardinality(InWrite) <= 1
    /\ InWrite # {} => InRead = {}
    /\ InWrite = {} => Map = abstract
    /\ \A p \in Callers :
          pc[p] \in {"Unlock", "RUnlock"} => locals[p].result = locals[p].expect

\* Two readers are inside Get or Empty at once, on a map that stores a
\* prefix, and one of them has found it.
C11_Witness ==
    /\ Cardinality(InRead) = 2
    /\ Stored(trieMap) # {}
    /\ \E p \in InRead :
          /\ locals[p].op = "Get"
          /\ pc[p] = "RUnlock"
          /\ locals[p].result.contains

-----------------------------------------------------------------------------
\* The node a prefix spells in the trie of its own family: the root of the
\* family of its address, then its leading bits.
OwnNode(p) == <<p.addr.z, PathBits(p.addr.v, BitLen(p.addr), p.bits)>>

\* C21: in every reachable state the node reached from the root of a bound
\* prefix's family by the first d bits of the prefix, d its length, holds that
\* prefix, and every node that holds a value holds a bound prefix and is the
\* node that prefix spells, at the depth of its length.
C21_ValueIffBound ==
    /\ \A p \in DOMAIN bound :
          /\ HasValue(trieMap, OwnNode(p))
          /\ trieMap.value[OwnNode(p)].prefix = p
    /\ \A n \in DOMAIN trieMap.value :
          /\ trieMap.value[n].prefix \in DOMAIN bound
          /\ n = OwnNode(trieMap.value[n].prefix)
          /\ Len(n[2]) = trieMap.value[n].prefix.bits

\* Every remove of the loop of removeAll returns true.
RECURSIVE allRemoved(_, _)
allRemoved(t, prefixes) ==
    \/ prefixes = <<>>
    \/ /\ remove(t, Head(prefixes)).removed
       /\ allRemoved(remove(t, Head(prefixes)).t, Tail(prefixes))

\* The elements of a sequence.
Range(s) == {s[i] : i \in 1 .. Len(s)}

\* C22: removeAll(key), as RemoveValue calls it, takes for its snapshot the
\* prefix of every node that carries key, each once; every remove of a
\* snapshot prefix returns true; on return no node carries key and keyRefs has
\* no entry for key; and every node that carries another key is still there
\* with its value.
C22_RemoveAll ==
    [][\A value \in {last'.value} :
          (CallRemoveValue(value) /\ value \in DOMAIN valueToKey) =>
              LET key == valueToKey[value]
                  prefixes == snapshot(trieMap, key)
              IN  /\ Range(prefixes) =
                        {trieMap.value[n].prefix : n \in NodesWith(trieMap, key)}
                  /\ Len(prefixes) = Cardinality(NodesWith(trieMap, key))
                  /\ allRemoved(trieMap, prefixes)
                  /\ NodesWith(trieMap', key) = {}
                  /\ key \notin DOMAIN trieMap'.keyRefs
                  /\ \A n \in DOMAIN trieMap.value :
                        trieMap.value[n].key # key =>
                            /\ n \in trieMap'.nodes
                            /\ HasValue(trieMap', n)
                            /\ trieMap'.value[n] = trieMap.value[n]]_vars

\* C23: in the state an Insert(P, V) leaves, a second Insert(P, V) changes
\* the result of Get for no address, nor the result of Empty, nor any
\* reference count.
C23_ReinsertIdempotent ==
    last.op = "Insert" =>
        LET again == Insert(Map, last.prefix, last.value)
        IN  /\ \A a \in Addrs : Get(again, a) = Get(Map, a)
            /\ Empty(again) = Empty(Map)
            /\ again.trieMap.keyRefs = trieMap.keyRefs

\* An Insert has bound a second prefix to a value, so that a repeated
\* Insert finds the value registered and its key counted twice.
C23_Witness ==
    /\ last.op = "Insert"
    /\ last.value \in DOMAIN valueToKey
    /\ MapGet(trieMap.keyRefs, valueToKey[last.value], 0) = 2
    /\ Cardinality(Stored(trieMap)) >= 2

\* C24: in every reachable state keyToValue and valueToKey are inverses of
\* each other, no two values share a key, every key a trie node holds has an
\* entry in keyToValue, and a Get that finds a prefix returns the value last
\* inserted at a stored prefix that contains the address.
C24_RegistryBijection ==
    /\ \A v \in DOMAIN valueToKey :
          /\ valueToKey[v] \in DOMAIN keyToValue
          /\ keyToValue[valueToKey[v]] = v
    /\ \A k \in DOMAIN keyToValue :
          /\ keyToValue[k] \in DOMAIN valueToKey
          /\ valueToKey[keyToValue[k]] = k
    /\ \A v1, v2 \in DOMAIN valueToKey :
          valueToKey[v1] = valueToKey[v2] => v1 = v2
    /\ HeldKeys(trieMap) \subseteq DOMAIN keyToValue
    /\ \A a \in Addrs :
          Get(Map, a).contains =>
              \E p \in Covering(trieMap, a) : Get(Map, a).value = bound[p]

\* The longest of the stored prefixes that contain an address.
LongestCovering(t, a) ==
    {p \in Covering(t, a) : \A q \in Covering(t, a) : q.bits <= p.bits}

\* C25: RemoveValue(V) leaves every prefix bound to another value stored and
\* bound to that value, and leaves the result of Get as it was for every
\* address whose longest stored prefix is bound to another value.
C25_RemoveValueFrame ==
    [][\A value \in {last'.value} :
          CallRemoveValue(value) =>
              /\ \A p \in DOMAIN bound :
                    bound[p] # value =>
                        /\ p \in Stored(trieMap')
                        /\ bound'[p] = bound[p]
              /\ \A a \in Addrs :
                    (/\ LongestCovering(trieMap, a) # {}
                     /\ \A p \in LongestCovering(trieMap, a) : bound[p] # value) =>
                        Get(Map', a) = Get(Map, a)]_vars

\* C26: an Insert(P, V) at a prefix that is not bound, followed by Remove(P):
\* the Remove returns true, and afterwards Get for every address and Empty
\* return what they returned before the Insert.
C26_InsertRemoveRoundTrip ==
    [][\A prefix \in {last'.prefix}, value \in {last'.value} :
          (CallInsert(prefix, value) /\ prefix \notin DOMAIN bound) =>
              /\ Remove(Map', prefix).removed
              /\ \A a \in Addrs : Get(Remove(Map', prefix), a) = Get(Map, a)
              /\ Empty(Remove(Map', prefix)) = Empty(Map)]_vars

=============================================================================
